---- MODULE Spec2Model ----
(***************************************************************************)
(* The squaring pipeline of fwojciec/concurrency:                          *)
(*   gen -> k sq goroutines (fan-out) -> merge (fan-in) -> consumer.       *)
(* Two programs share the design: src/main.go (no cancellation, variant    *)
(* "plain") and src/cmd/squaring-numbers/main.go (a done channel raced     *)
(* against every send, variant "cancel").  Channels follow Go's semantics: *)
(* an unbuffered send is a rendezvous with a receive, a receive on a       *)
(* closed channel returns at once, a send on a closed channel and a close  *)
(* of a closed channel panic.                                              *)
(***************************************************************************)
EXTENDS Integers, Sequences, FiniteSets

\* Bounds of the model.
MaxLen == 2
MaxK == 2

\* The input values gen may be called with.
Vals == {2, 3}

VARIABLES
  variant,     \* "plain": src/main.go; "cancel": src/cmd/squaring-numbers/main.go
  nums,        \* the argument of gen
  k,           \* the number of sq instances main starts on gen's output
  mpc,         \* main's position: "gen", "sq", "go", "consume", "exit"
  gi,          \* gen: the number of values sent so far
  si,          \* main: the number of sq / forwarder goroutines started so far
  inCap,       \* capacity of gen's channel
  inBuf,       \* buffer of gen's channel
  taken,       \* the values received from gen's channel, in order of receipt
  closes,      \* per channel: the number of close calls made on it
  closedBy,    \* per channel: the stages that called close on it
  sqpc,        \* per sq goroutine: "idle", "recv", "select", "close", "done"
  sqn,         \* per sq goroutine: the item n it holds (0 outside the loop body)
  sqExit,      \* per sq goroutine: how its loop ended: "none", "closed", "cancel"
  fpc,         \* per forwarder (merge.output): "idle", "recv", "select", "wgdone", "done"
  fn,          \* per forwarder: the item n it holds (0 outside the loop body)
  fExit,       \* per forwarder: how its loop ended
  wg,          \* the WaitGroup counter of merge
  cpc,         \* merge's closer goroutine: "idle", "wait", "close", "done"
  received,    \* the items the consumer received from merge's output
  sawClosed,   \* the consumer's receive found merge's output closed
  rcvAtCancel, \* receives the consumer had completed when done was closed (-1: not yet)
  fault,       \* the run-time panic that stopped the program, or "none"
  dropped,     \* the number of items a stage discarded by returning on <-done
  track,       \* whether this run records where each item went (the four below)
  sqpos,       \* per sq goroutine: the position in nums of the item it holds (0: none)
  fpos,        \* per forwarder: the position in nums of the item it holds (0: none)
  sqIn,        \* per sq goroutine: the positions of the items it received, in order
  rcvPos       \* the positions in nums of the items in received, in the same order

vars == <<variant, nums, k, mpc, gi, si, inCap, inBuf, taken, closes, closedBy,
          sqpc, sqn, sqExit, fpc, fn, fExit, wg, cpc, received, sawClosed,
          rcvAtCancel, fault, dropped, track, sqpos, fpos, sqIn, rcvPos>>

\* The record of where each item went: kept beside the program's state and
\* read by no action's guard.  It is written only in a run that tracks items.
hist == <<track, sqpos, fpos, sqIn, rcvPos>>
Track(old, new) == IF track THEN new ELSE old

----------------------------------------------------------------------------
\* Channels and the stages that make them.

Idx == 1..MaxK
InCh == <<"in", 0>>
OutCh == <<"out", 0>>
DoneCh == <<"done", 0>>
SqCh(i) == <<"c", i>>
Chans == {InCh, OutCh, DoneCh} \cup {SqCh(i) : i \in Idx}

GenStage == <<"gen", 0>>
MergeStage == <<"merge", 0>>
MainStage == <<"main", 0>>
SqStage(i) == <<"sq", i>>

\* The stage whose code makes the channel.
Owner(ch) ==
  IF ch = InCh THEN GenStage
  ELSE IF ch = OutCh THEN MergeStage
  ELSE IF ch = DoneCh THEN MainStage
  ELSE SqStage(ch[2])

Closed(ch) == closes[ch] > 0

\* Variant: close treated as idempotent.
CloseFaultNever(n) == "none"

\* Go: close of a closed channel panics.
CloseFault(n) == IF n > 0 THEN "close of closed channel" ELSE "none"

\* close(ch) called by stage who.
DoClose(ch, who) ==
  /\ closes' = [closes EXCEPT ![ch] = @ + 1]
  /\ closedBy' = [closedBy EXCEPT ![ch] = @ \cup {who}]
  /\ fault' = CloseFault(closes[ch])

\* Go: send on a closed channel panics.
SendFault == "send on closed channel"

Alive == fault = "none"

\* Variant: the work doubles instead of squaring.
SquareAsDouble(n) == n + n

\* "work": n * n
Square(n) == n * n

\* Variant: an unbuffered channel, as genV1 makes, filled on the caller's goroutine.
MakeCapUnbuffered(s) == 0

\* make(chan int, len(nums))
MakeCap(s) == Len(s)

Inputs == UNION {[1..n -> Vals] : n \in 0..MaxLen}

----------------------------------------------------------------------------
\* The state when main starts, before gen is called.
Start ==
  /\ variant \in {"plain", "cancel"}
  /\ nums \in Inputs
  /\ k \in 0..MaxK
  /\ mpc = "gen"
  /\ gi = 0
  /\ si = 0
  /\ inCap = MakeCap(nums)
  /\ inBuf = <<>>
  /\ taken = <<>>
  /\ closes = [ch \in Chans |-> 0]
  /\ closedBy = [ch \in Chans |-> {}]
  /\ sqpc = [i \in Idx |-> "idle"]
  /\ sqn = [i \in Idx |-> 0]
  /\ sqExit = [i \in Idx |-> "none"]
  /\ fpc = [i \in Idx |-> "idle"]
  /\ fn = [i \in Idx |-> 0]
  /\ fExit = [i \in Idx |-> "none"]
  /\ wg = 0
  /\ cpc = "idle"
  /\ received = <<>>
  /\ sawClosed = FALSE
  /\ rcvAtCancel = -1
  /\ fault = "none"
  /\ dropped = 0
  /\ sqpos = [i \in Idx |-> 0]
  /\ fpos = [i \in Idx |-> 0]
  /\ sqIn = [i \in Idx |-> <<>>]
  /\ rcvPos = <<>>

Init == Start /\ track = FALSE

\* The same program, with the path of every item recorded.
InitTracked == Start /\ track = TRUE

----------------------------------------------------------------------------
\* gen: runs on main's goroutine, before any sq is started.

\* out <- n  (blocks while the buffer is full)
GenSend ==
  /\ Alive /\ mpc = "gen" /\ gi < Len(nums)
  /\ IF Closed(InCh)
       THEN /\ fault' = SendFault
            /\ UNCHANGED <<inBuf, gi>>
       ELSE /\ Len(inBuf) < inCap
            /\ inBuf' = Append(inBuf, nums[gi + 1])
            /\ gi' = gi + 1
            /\ UNCHANGED fault
  /\ UNCHANGED <<hist, dropped, variant, nums, k, mpc, si, inCap, taken, closes, closedBy, sqpc, sqn,
                 sqExit, fpc, fn, fExit, wg, cpc, received, sawClosed, rcvAtCancel>>

\* close(out); return out
GenClose ==
  /\ Alive /\ mpc = "gen" /\ gi = Len(nums)
  /\ DoClose(InCh, GenStage)
  /\ mpc' = "sq"
  /\ UNCHANGED <<hist, dropped, variant, nums, k, gi, si, inCap, inBuf, taken, sqpc, sqn, sqExit,
                 fpc, fn, fExit, wg, cpc, received, sawClosed, rcvAtCancel>>

----------------------------------------------------------------------------
\* main: c_i := sq(done, in), then merge(done, c_1, ..., c_k).

\* sq: out := make(chan int); go func() {...}(); return out
SpawnSq ==
  /\ Alive /\ mpc = "sq" /\ si < k
  /\ sqpc' = [sqpc EXCEPT ![si + 1] = "recv"]
  /\ si' = si + 1
  /\ UNCHANGED <<hist, dropped, variant, nums, k, mpc, gi, inCap, inBuf, taken, closes, closedBy, sqn,
                 sqExit, fpc, fn, fExit, wg, cpc, received, sawClosed, rcvAtCancel, fault>>

\* Variant: merge without the wg.Add call.
MergeNoAdd ==
  /\ Alive /\ mpc = "sq" /\ si = k
  /\ si' = 0
  /\ mpc' = "go"
  /\ UNCHANGED <<hist, dropped, variant, nums, k, gi, inCap, inBuf, taken, closes, closedBy, sqpc, sqn,
                 sqExit, fpc, fn, fExit, wg, cpc, received, sawClosed, rcvAtCancel, fault>>

\* Variant: merge adds one more to the WaitGroup than it starts forwarders.
MergeAddOneMore ==
  /\ Alive /\ mpc = "sq" /\ si = k
  /\ wg' = wg + k + 1
  /\ si' = 0
  /\ mpc' = "go"
  /\ UNCHANGED <<hist, dropped, variant, nums, k, gi, inCap, inBuf, taken, closes, closedBy, sqpc, sqn,
                 sqExit, fpc, fn, fExit, cpc, received, sawClosed, rcvAtCancel, fault>>

\* merge: out := make(chan int); wg.Add(len(cs))
MergeAdd ==
  /\ Alive /\ mpc = "sq" /\ si = k
  /\ wg' = wg + k
  /\ si' = 0
  /\ mpc' = "go"
  /\ UNCHANGED <<hist, dropped, variant, nums, k, gi, inCap, inBuf, taken, closes, closedBy, sqpc, sqn,
                 sqExit, fpc, fn, fExit, cpc, received, sawClosed, rcvAtCancel, fault>>

\* merge: for _, c := range cs { go output(c) }
SpawnFwd ==
  /\ Alive /\ mpc = "go" /\ si < k
  /\ fpc' = [fpc EXCEPT ![si + 1] = "recv"]
  /\ si' = si + 1
  /\ UNCHANGED <<hist, dropped, variant, nums, k, mpc, gi, inCap, inBuf, taken, closes, closedBy, sqpc,
                 sqn, sqExit, fn, fExit, wg, cpc, received, sawClosed, rcvAtCancel, fault>>

\* merge: go func() { wg.Wait(); close(out) }(); return out
SpawnCoord ==
  /\ Alive /\ mpc = "go" /\ si = k
  /\ cpc' = "wait"
  /\ mpc' = "consume"
  /\ UNCHANGED <<hist, dropped, variant, nums, k, gi, si, inCap, inBuf, taken, closes, closedBy, sqpc,
                 sqn, sqExit, fpc, fn, fExit, wg, received, sawClosed, rcvAtCancel, fault>>

----------------------------------------------------------------------------
\* sq goroutine i.

\* Variant: the receive leaves the item in the channel for the next receiver.
SqRecvPeek(i) ==
  /\ Alive /\ sqpc[i] = "recv" /\ inBuf # <<>>
  /\ sqn' = [sqn EXCEPT ![i] = Head(inBuf)]
  /\ UNCHANGED inBuf
  /\ taken' = Append(taken, Head(inBuf))
  /\ sqpc' = [sqpc EXCEPT ![i] = "select"]
  /\ sqpos' = Track(sqpos, [sqpos EXCEPT ![i] = Len(nums) - Len(inBuf) + 1])
  /\ sqIn' = Track(sqIn, [sqIn EXCEPT ![i] = Append(@, Len(nums) - Len(inBuf) + 1)])
  /\ UNCHANGED <<track, fpos, rcvPos, dropped, variant, nums, k, mpc, gi, si, inCap, closes, closedBy, sqExit, fpc, fn,
                 fExit, wg, cpc, received, sawClosed, rcvAtCancel, fault>>

\* Variant: the channel hands out its newest item first.
SqRecvLast(i) ==
  /\ Alive /\ sqpc[i] = "recv" /\ inBuf # <<>>
  /\ sqn' = [sqn EXCEPT ![i] = inBuf[Len(inBuf)]]
  /\ inBuf' = SubSeq(inBuf, 1, Len(inBuf) - 1)
  /\ taken' = Append(taken, inBuf[Len(inBuf)])
  /\ sqpc' = [sqpc EXCEPT ![i] = "select"]
  /\ sqpos' = Track(sqpos, [sqpos EXCEPT ![i] = Len(inBuf)])
  /\ sqIn' = Track(sqIn, [sqIn EXCEPT ![i] = Append(@, Len(inBuf))])
  /\ UNCHANGED <<track, fpos, rcvPos, dropped, variant, nums, k, mpc, gi, si, inCap, closes, closedBy, sqExit, fpc, fn,
                 fExit, wg, cpc, received, sawClosed, rcvAtCancel, fault>>

\* Variant: sq receives the next item before it has sent the one it holds.
SqRecvWhileHolding(i) ==
  /\ Alive /\ sqpc[i] \in {"recv", "select"} /\ inBuf # <<>>
  /\ sqn' = [sqn EXCEPT ![i] = Head(inBuf)]
  /\ inBuf' = Tail(inBuf)
  /\ taken' = Append(taken, Head(inBuf))
  /\ sqpc' = [sqpc EXCEPT ![i] = "select"]
  /\ sqpos' = Track(sqpos, [sqpos EXCEPT ![i] = Len(nums) - Len(inBuf) + 1])
  /\ sqIn' = Track(sqIn, [sqIn EXCEPT ![i] = Append(@, Len(nums) - Len(inBuf) + 1)])
  /\ UNCHANGED <<track, fpos, rcvPos, dropped, variant, nums, k, mpc, gi, si, inCap, closes, closedBy, sqExit, fpc, fn,
                 fExit, wg, cpc, received, sawClosed, rcvAtCancel, fault>>

\* for n := range in: an item is taken from gen's channel
SqRecv(i) ==
  /\ Alive /\ sqpc[i] = "recv" /\ inBuf # <<>>
  /\ sqn' = [sqn EXCEPT ![i] = Head(inBuf)]
  /\ inBuf' = Tail(inBuf)
  /\ taken' = Append(taken, Head(inBuf))
  /\ sqpc' = [sqpc EXCEPT ![i] = "select"]
  /\ sqpos' = Track(sqpos, [sqpos EXCEPT ![i] = Len(nums) - Len(inBuf) + 1])
  /\ sqIn' = Track(sqIn, [sqIn EXCEPT ![i] = Append(@, Len(nums) - Len(inBuf) + 1)])
  /\ UNCHANGED <<track, fpos, rcvPos, dropped, variant, nums, k, mpc, gi, si, inCap, closes, closedBy, sqExit, fpc, fn,
                 fExit, wg, cpc, received, sawClosed, rcvAtCancel, fault>>

\* Variant: the closed receive's zero value is taken for an item.
SqRecvClosedAsItem(i) ==
  /\ Alive /\ sqpc[i] = "recv" /\ inBuf = <<>> /\ Closed(InCh)
  /\ sqn' = [sqn EXCEPT ![i] = 0]
  /\ sqpc' = [sqpc EXCEPT ![i] = "select"]
  /\ UNCHANGED <<hist, dropped, variant, nums, k, mpc, gi, si, inCap, inBuf, taken, closes, closedBy,
                 sqExit, fpc, fn, fExit, wg, cpc, received, sawClosed, rcvAtCancel, fault>>

\* for n := range in: gen's channel is closed and drained, the loop ends
SqRecvClosed(i) ==
  /\ Alive /\ sqpc[i] = "recv" /\ inBuf = <<>> /\ Closed(InCh)
  /\ sqpc' = [sqpc EXCEPT ![i] = "close"]
  /\ sqExit' = [sqExit EXCEPT ![i] = "closed"]
  /\ UNCHANGED <<hist, dropped, variant, nums, k, mpc, gi, si, inCap, inBuf, taken, closes, closedBy, sqn,
                 fpc, fn, fExit, wg, cpc, received, sawClosed, rcvAtCancel, fault>>

\* out <- n * n: handed to forwarder i, which is receiving on c_i
SqSend(i) ==
  /\ Alive /\ sqpc[i] = "select"
  /\ IF Closed(SqCh(i))
       THEN /\ fault' = SendFault
            /\ UNCHANGED <<sqpc, sqn, fpc, fn, sqpos, fpos>>
       ELSE /\ fpc[i] = "recv"
            /\ fn' = [fn EXCEPT ![i] = Square(sqn[i])]
            /\ fpc' = [fpc EXCEPT ![i] = "select"]
            /\ fpos' = Track(fpos, [fpos EXCEPT ![i] = sqpos[i]])
            /\ sqn' = [sqn EXCEPT ![i] = 0]
            /\ sqpos' = Track(sqpos, [sqpos EXCEPT ![i] = 0])
            /\ sqpc' = [sqpc EXCEPT ![i] = "recv"]
            /\ UNCHANGED fault
  /\ UNCHANGED <<track, sqIn, rcvPos, dropped, variant, nums, k, mpc, gi, si, inCap, inBuf, taken, closes, closedBy,
                 sqExit, fExit, wg, cpc, received, sawClosed, rcvAtCancel>>

\* Variant: sq's send is not raced against done (as in src/main.go).
SqCancelNever(i) ==
  /\ FALSE
  /\ UNCHANGED vars

\* Variant: the cancel case closes out itself, before the deferred close runs.
SqCancelClosing(i) ==
  /\ Alive /\ variant = "cancel" /\ sqpc[i] = "select" /\ Closed(DoneCh)
  /\ DoClose(SqCh(i), SqStage(i))
  /\ sqpc' = [sqpc EXCEPT ![i] = "close"]
  /\ sqn' = [sqn EXCEPT ![i] = 0]
  /\ sqExit' = [sqExit EXCEPT ![i] = "cancel"]
  /\ sqpos' = Track(sqpos, [sqpos EXCEPT ![i] = 0])
  /\ dropped' = dropped + 1
  /\ UNCHANGED <<track, fpos, sqIn, rcvPos, variant, nums, k, mpc, gi, si, inCap, inBuf, taken,
                 fpc, fn, fExit, wg, cpc, received, sawClosed, rcvAtCancel>>

\* Variant: the done case continues the loop instead of returning.
SqCancelContinue(i) ==
  /\ Alive /\ variant = "cancel" /\ sqpc[i] = "select" /\ Closed(DoneCh)
  /\ sqpc' = [sqpc EXCEPT ![i] = "recv"]
  /\ sqn' = [sqn EXCEPT ![i] = 0]
  /\ sqExit' = [sqExit EXCEPT ![i] = "cancel"]
  /\ sqpos' = Track(sqpos, [sqpos EXCEPT ![i] = 0])
  /\ dropped' = dropped + 1
  /\ UNCHANGED <<track, fpos, sqIn, rcvPos, variant, nums, k, mpc, gi, si, inCap, inBuf, taken, closes, closedBy,
                 fpc, fn, fExit, wg, cpc, received, sawClosed, rcvAtCancel, fault>>

\* case <-done: return
SqCancel(i) ==
  /\ Alive /\ variant = "cancel" /\ sqpc[i] = "select" /\ Closed(DoneCh)
  /\ sqpc' = [sqpc EXCEPT ![i] = "close"]
  /\ sqn' = [sqn EXCEPT ![i] = 0]
  /\ sqExit' = [sqExit EXCEPT ![i] = "cancel"]
  /\ sqpos' = Track(sqpos, [sqpos EXCEPT ![i] = 0])
  /\ dropped' = dropped + 1
  /\ UNCHANGED <<track, fpos, sqIn, rcvPos, variant, nums, k, mpc, gi, si, inCap, inBuf, taken, closes, closedBy,
                 fpc, fn, fExit, wg, cpc, received, sawClosed, rcvAtCancel, fault>>

\* Variant: sq returns without closing its output.
SqCloseForgotten(i) ==
  /\ Alive /\ sqpc[i] = "close"
  /\ sqpc' = [sqpc EXCEPT ![i] = "done"]
  /\ UNCHANGED <<hist, dropped, variant, nums, k, mpc, gi, si, inCap, inBuf, taken, closes, closedBy, sqn,
                 sqExit, fpc, fn, fExit, wg, cpc, received, sawClosed, rcvAtCancel, fault>>

\* Variant: sq closes its output and goes on receiving.
SqCloseThenLoop(i) ==
  /\ Alive /\ sqpc[i] = "close"
  /\ DoClose(SqCh(i), SqStage(i))
  /\ sqpc' = [sqpc EXCEPT ![i] = "recv"]
  /\ UNCHANGED <<hist, dropped, variant, nums, k, mpc, gi, si, inCap, inBuf, taken, sqn, sqExit, fpc, fn,
                 fExit, wg, cpc, received, sawClosed, rcvAtCancel>>

\* close(out), deferred in the cancellable variant
SqClose(i) ==
  /\ Alive /\ sqpc[i] = "close"
  /\ DoClose(SqCh(i), SqStage(i))
  /\ sqpc' = [sqpc EXCEPT ![i] = "done"]
  /\ UNCHANGED <<hist, dropped, variant, nums, k, mpc, gi, si, inCap, inBuf, taken, sqn, sqExit, fpc, fn,
                 fExit, wg, cpc, received, sawClosed, rcvAtCancel>>

----------------------------------------------------------------------------
\* merge: forwarder i (output(c_i)) and the closer goroutine.

\* Variant: the forwarder's receive is raced against done.
FwdRecvClosedOrCancelled(i) ==
  /\ Alive /\ fpc[i] = "recv" /\ (Closed(SqCh(i)) \/ Closed(DoneCh))
  /\ fpc' = [fpc EXCEPT ![i] = "wgdone"]
  /\ fExit' = [fExit EXCEPT ![i] = IF Closed(SqCh(i)) THEN "closed" ELSE "cancel"]
  /\ UNCHANGED <<hist, dropped, variant, nums, k, mpc, gi, si, inCap, inBuf, taken, closes, closedBy, sqpc,
                 sqn, sqExit, fn, wg, cpc, received, sawClosed, rcvAtCancel, fault>>

\* for n := range c: c is closed, the loop ends
FwdRecvClosed(i) ==
  /\ Alive /\ fpc[i] = "recv" /\ Closed(SqCh(i))
  /\ fpc' = [fpc EXCEPT ![i] = "wgdone"]
  /\ fExit' = [fExit EXCEPT ![i] = "closed"]
  /\ UNCHANGED <<hist, dropped, variant, nums, k, mpc, gi, si, inCap, inBuf, taken, closes, closedBy, sqpc,
                 sqn, sqExit, fn, wg, cpc, received, sawClosed, rcvAtCancel, fault>>

\* Variant: the forwarder sends the item it holds again.
FwdSendTwice(i) ==
  /\ Alive /\ fpc[i] = "select"
  /\ IF Closed(OutCh)
       THEN /\ fault' = SendFault
            /\ UNCHANGED <<fpc, fn, received, fpos, rcvPos>>
       ELSE /\ mpc = "consume"
            /\ received' = Append(received, fn[i])
            /\ rcvPos' = Track(rcvPos, Append(rcvPos, fpos[i]))
            /\ UNCHANGED <<fpc, fn, fpos>>
            /\ UNCHANGED fault
  /\ UNCHANGED <<track, sqpos, sqIn, dropped, variant, nums, k, mpc, gi, si, inCap, inBuf, taken, closes, closedBy, sqpc,
                 sqn, sqExit, fExit, wg, cpc, sawClosed, rcvAtCancel>>

\* Variant: merge's output is buffered, the send needs no receiver.
FwdSendBuffered(i) ==
  /\ Alive /\ fpc[i] = "select"
  /\ IF Closed(OutCh)
       THEN /\ fault' = SendFault
            /\ UNCHANGED <<fpc, fn, received, fpos, rcvPos>>
       ELSE /\ UNCHANGED <<received, rcvPos>>
            /\ fn' = [fn EXCEPT ![i] = 0]
            /\ fpos' = Track(fpos, [fpos EXCEPT ![i] = 0])
            /\ fpc' = [fpc EXCEPT ![i] = "recv"]
            /\ UNCHANGED fault
  /\ UNCHANGED <<track, sqpos, sqIn, dropped, variant, nums, k, mpc, gi, si, inCap, inBuf, taken, closes, closedBy, sqpc,
                 sqn, sqExit, fExit, wg, cpc, sawClosed, rcvAtCancel>>

\* out <- n: handed to the consumer, which is receiving on merge's output
FwdSend(i) ==
  /\ Alive /\ fpc[i] = "select"
  /\ IF Closed(OutCh)
       THEN /\ fault' = SendFault
            /\ UNCHANGED <<fpc, fn, received, fpos, rcvPos>>
       ELSE /\ mpc = "consume"
            /\ received' = Append(received, fn[i])
            /\ rcvPos' = Track(rcvPos, Append(rcvPos, fpos[i]))
            /\ fn' = [fn EXCEPT ![i] = 0]
            /\ fpos' = Track(fpos, [fpos EXCEPT ![i] = 0])
            /\ fpc' = [fpc EXCEPT ![i] = "recv"]
            /\ UNCHANGED fault
  /\ UNCHANGED <<track, sqpos, sqIn, dropped, variant, nums, k, mpc, gi, si, inCap, inBuf, taken, closes, closedBy, sqpc,
                 sqn, sqExit, fExit, wg, cpc, sawClosed, rcvAtCancel>>

\* case <-done: return
FwdCancel(i) ==
  /\ Alive /\ variant = "cancel" /\ fpc[i] = "select" /\ Closed(DoneCh)
  /\ fpc' = [fpc EXCEPT ![i] = "wgdone"]
  /\ fn' = [fn EXCEPT ![i] = 0]
  /\ fExit' = [fExit EXCEPT ![i] = "cancel"]
  /\ fpos' = Track(fpos, [fpos EXCEPT ![i] = 0])
  /\ dropped' = dropped + 1
  /\ UNCHANGED <<track, sqpos, sqIn, rcvPos, variant, nums, k, mpc, gi, si, inCap, inBuf, taken, closes, closedBy, sqpc,
                 sqn, sqExit, wg, cpc, received, sawClosed, rcvAtCancel, fault>>

\* wg.Done(), deferred in the cancellable variant
FwdDone(i) ==
  /\ Alive /\ fpc[i] = "wgdone"
  /\ wg' = wg - 1
  /\ fault' = IF wg - 1 < 0 THEN "negative WaitGroup counter" ELSE "none"
  /\ fpc' = [fpc EXCEPT ![i] = "done"]
  /\ UNCHANGED <<hist, dropped, variant, nums, k, mpc, gi, si, inCap, inBuf, taken, closes, closedBy, sqpc,
                 sqn, sqExit, fn, fExit, cpc, received, sawClosed, rcvAtCancel>>

\* Variant: the closer does not wait for the forwarders.
CoordNoWait ==
  /\ Alive /\ cpc = "wait"
  /\ cpc' = "close"
  /\ UNCHANGED <<hist, dropped, variant, nums, k, mpc, gi, si, inCap, inBuf, taken, closes, closedBy, sqpc,
                 sqn, sqExit, fpc, fn, fExit, wg, received, sawClosed, rcvAtCancel, fault>>

\* Variant: the closer stops waiting one forwarder early.
CoordWaitOffByOne ==
  /\ Alive /\ cpc = "wait" /\ wg <= 1
  /\ cpc' = "close"
  /\ UNCHANGED <<hist, dropped, variant, nums, k, mpc, gi, si, inCap, inBuf, taken, closes, closedBy, sqpc,
                 sqn, sqExit, fpc, fn, fExit, wg, received, sawClosed, rcvAtCancel, fault>>

\* wg.Wait() returns once the counter is zero
CoordWait ==
  /\ Alive /\ cpc = "wait" /\ wg = 0
  /\ cpc' = "close"
  /\ UNCHANGED <<hist, dropped, variant, nums, k, mpc, gi, si, inCap, inBuf, taken, closes, closedBy, sqpc,
                 sqn, sqExit, fpc, fn, fExit, wg, received, sawClosed, rcvAtCancel, fault>>

\* close(out)
CoordClose ==
  /\ Alive /\ cpc = "close"
  /\ DoClose(OutCh, MergeStage)
  /\ cpc' = "done"
  /\ UNCHANGED <<hist, dropped, variant, nums, k, mpc, gi, si, inCap, inBuf, taken, sqpc, sqn, sqExit, fpc,
                 fn, fExit, wg, received, sawClosed, rcvAtCancel>>

----------------------------------------------------------------------------
\* The consumer (main after merge returned) and the cancellation signal.

\* The receives the consumer has completed.
RcvCount == Len(received) + (IF sawClosed THEN 1 ELSE 0)

\* a receive on merge's output finds it closed: range ends, <-out yields the zero value
ConsumerRecvClosed ==
  /\ Alive /\ mpc = "consume" /\ Closed(OutCh)
  /\ sawClosed' = TRUE
  /\ mpc' = "exit"
  /\ UNCHANGED <<hist, dropped, variant, nums, k, gi, si, inCap, inBuf, taken, closes, closedBy, sqpc, sqn,
                 sqExit, fpc, fn, fExit, wg, cpc, received, rcvAtCancel, fault>>

\* close(done)
CloseDone ==
  /\ Alive /\ variant = "cancel"
  /\ DoClose(DoneCh, MainStage)
  /\ rcvAtCancel' = IF rcvAtCancel = -1 THEN RcvCount ELSE rcvAtCancel
  /\ UNCHANGED <<hist, dropped, variant, nums, k, mpc, gi, si, inCap, inBuf, taken, sqpc, sqn, sqExit, fpc,
                 fn, fExit, wg, cpc, received, sawClosed>>

\* main's one close(done): the signal is activated
Activate == ~Closed(DoneCh) /\ CloseDone

\* a further close(done) on the activated signal
Reactivate == Closed(DoneCh) /\ CloseDone

----------------------------------------------------------------------------
Next ==
  \/ GenSend
  \/ GenClose
  \/ SpawnSq
  \/ MergeAdd
  \/ SpawnFwd
  \/ SpawnCoord
  \/ \E i \in Idx : SqRecv(i)
  \/ \E i \in Idx : SqRecvClosed(i)
  \/ \E i \in Idx : SqSend(i)
  \/ \E i \in Idx : SqCancel(i)
  \/ \E i \in Idx : SqClose(i)
  \/ \E i \in Idx : FwdRecvClosed(i)
  \/ \E i \in Idx : FwdSend(i)
  \/ \E i \in Idx : FwdCancel(i)
  \/ \E i \in Idx : FwdDone(i)
  \/ CoordWait
  \/ CoordClose
  \/ ConsumerRecvClosed
  \/ Activate

Spec == Init /\ [][Next]_vars

\* The program with a caller that closes done more than once.
NextReact == Next \/ Reactivate

SpecReact == Init /\ [][NextReact]_vars

\* The program with the path of every item recorded.
SpecTracked == InitTracked /\ [][Next]_vars

----------------------------------------------------------------------------
\* Scheduling.  The Go scheduler runs every runnable goroutine, so the program
\* does not stop while some goroutine can take a step; that much is all the
\* fairness the properties below need.  A send to the consumer needs the
\* consumer to receive, which it is free not to do.

MainStep == GenSend \/ GenClose \/ SpawnSq \/ MergeAdd \/ SpawnFwd \/ SpawnCoord
SqStep(i) == SqRecv(i) \/ SqRecvClosed(i) \/ SqSend(i) \/ SqCancel(i) \/ SqClose(i)
FwdStep(i) == FwdRecvClosed(i) \/ FwdCancel(i) \/ FwdDone(i)
CoordStep == CoordWait \/ CoordClose
ConsumerStep == (\E i \in Idx : FwdSend(i)) \/ ConsumerRecvClosed

GoroutineStep ==
  \/ MainStep
  \/ \E i \in Idx : SqStep(i) \/ FwdStep(i)
  \/ CoordStep

\* The goroutines are scheduled; the consumer may stop receiving.
FairSpec == Spec /\ WF_vars(GoroutineStep)

\* The goroutines are scheduled and the consumer keeps receiving.
FairDrainSpec == Spec /\ WF_vars(GoroutineStep \/ ConsumerStep)

----------------------------------------------------------------------------
\* Shared vocabulary of the properties.

Started == 1..k
AllTerminated ==
  /\ mpc \in {"consume", "exit"}
  /\ \A i \in Started : sqpc[i] = "done" /\ fpc[i] = "done"
  /\ cpc = "done"

Count(s, v) == Cardinality({j \in DOMAIN s : s[j] = v})
SameBag(s, t) ==
  /\ Len(s) = Len(t)
  /\ \A j \in DOMAIN s : Count(s, s[j]) = Count(t, s[j])

----------------------------------------------------------------------------
\* C1: for every input S and every k >= 1, when done is never closed and the
\* consumer has received until merge's output reported closure, the multiset
\* of the values it received is {x*x : x in S}: nothing lost, nothing twice.
C1_OutputIsSquares ==
  (k >= 1 /\ ~Closed(DoneCh) /\ sawClosed)
    => SameBag(received, [j \in DOMAIN nums |-> nums[j] * nums[j]])

\* input [2, 3], two sq instances, drained without cancellation, 9 before 4
C1_Witness ==
  /\ nums = <<2, 3>> /\ k = 2 /\ ~Closed(DoneCh)
  /\ sawClosed /\ received = <<9, 4>>

\* C2: no send is ever performed on a closed channel: merge's output is closed
\* only once every forwarder has called wg.Done and left its loop, and no sq
\* instance is still running once its own output is closed.
C2_NoSendOnClosed ==
  /\ fault # SendFault
  /\ Closed(OutCh) => (wg = 0 /\ \A i \in Started : fpc[i] = "done")
  /\ \A i \in Idx : Closed(SqCh(i)) => sqpc[i] = "done"

\* merge's output closed after a forwarder left its send on cancellation
C2_Witness ==
  /\ k = 2 /\ Closed(OutCh) /\ Closed(DoneCh)
  /\ \E i \in Started : fExit[i] = "cancel"
  /\ \E i \in Started : fExit[i] = "closed"

\* C3: each stream of the pipeline (gen's output, each sq output, merge's
\* output) is closed at most once, only by the stage that made it, and has
\* been closed exactly once when that stage has terminated, on every path.
OwnerTerminated(ch) ==
  IF ch = InCh THEN mpc # "gen"
  ELSE IF ch = OutCh THEN cpc = "done"
  ELSE sqpc[ch[2]] = "done"

C3_ClosedOnceByOwner ==
  \A ch \in Chans \ {DoneCh} :
    /\ closes[ch] <= 1
    /\ closedBy[ch] \subseteq {Owner(ch)}
    /\ OwnerTerminated(ch) => closes[ch] = 1

\* a cancelled run: one sq left by cancellation, one by exhaustion, all closed once
C3_Witness ==
  /\ k = 2 /\ AllTerminated /\ Closed(DoneCh)
  /\ \E i \in Started : sqExit[i] = "cancel"
  /\ \E i \in Started : sqExit[i] = "closed"
  /\ \A ch \in {InCh, OutCh, SqCh(1), SqCh(2)} : closes[ch] = 1

\* C4: in the cancellable pipeline, once done is closed, every sq goroutine,
\* every forwarder and the closer eventually terminate and merge's output is
\* eventually closed, whether or not the consumer receives again.
C4_CancelTerminates ==
  Closed(DoneCh) ~> (AllTerminated /\ Closed(OutCh))

\* everything terminated after cancellation although items were never received
C4_Witness ==
  /\ k = 2 /\ Len(nums) = 2 /\ Closed(DoneCh) /\ AllTerminated /\ Closed(OutCh)
  /\ received = <<>> /\ ~sawClosed
  /\ \E i \in Started : sqExit[i] = "cancel" /\ fExit[i] = "closed"
  /\ \E i \in Started : fExit[i] = "cancel"

----------------------------------------------------------------------------
\* Forwarder i is blocked in its receive: c_i is open and sq i offers nothing.
FwdBlockedReading(i) ==
  fpc[i] = "recv" /\ ~Closed(SqCh(i)) /\ sqpc[i] # "select"

\* A step of forwarder i alone that takes it out of its loop.
FwdLeaves(i) == FwdRecvClosed(i) \/ FwdCancel(i)

\* C5 as stated: a stage blocked reading from an open, empty upstream
\* unblocks on cancellation by itself, without the upstream sending or
\* closing: once done is closed, the blocked forwarder can leave its loop.
C5_UnblocksWithoutUpstream ==
  \A i \in Started :
    (Closed(DoneCh) /\ FwdBlockedReading(i)) => ENABLED FwdLeaves(i)

\* C5 as the code has it: the receive of "for n := range c" is not raced
\* against done, so a forwarder leaves its receive only when its upstream is
\* closed or sq i hands it an item, cancelled or not; and an sq instance is
\* never blocked in its receive, gen's channel being closed before sq starts.
C5_ReadEndsOnlyByUpstream ==
  /\ [](\A i \in Idx : sqpc[i] = "recv" => Closed(InCh))
  /\ [][\A i \in Idx :
          (fpc[i] = "recv" /\ fpc'[i] # "recv")
            => (Closed(SqCh(i)) \/ (sqpc[i] = "select" /\ sqpc'[i] = "recv"))]_vars

\* done is closed, forwarder 1 waits in its receive, sq 1 has not closed yet
C5_Witness ==
  /\ Closed(DoneCh) /\ FwdBlockedReading(1)
  /\ sqpc[1] = "close" /\ sqExit[1] = "cancel"

\* C6 as stated: closing done a second time is a no-op, not a fault.
C6_SecondActivationNoFault ==
  closes[DoneCh] >= 2 => fault = "none"

\* C6 as the code has it: the signal is a channel and activation is
\* close(done); the first close is no fault, a second close of the closed
\* channel is a run-time panic (the program closes done once).
C6_SecondActivationPanics ==
  /\ closes[DoneCh] = 1 => fault = "none"
  /\ closes[DoneCh] >= 2 => fault = "close of closed channel"

\* done has been closed twice
C6_Witness ==
  closes[DoneCh] = 2 /\ closedBy[DoneCh] = {MainStage}

----------------------------------------------------------------------------
\* The consumer of main in the cancellable program: non-empty input, one
\* receive completed, then close(done), and no receive after it.
OneShot ==
  /\ Len(nums) > 0 /\ k >= 1
  /\ rcvAtCancel = 1 /\ RcvCount = 1

\* C7: that consumer's receive yields a real item (the square of an input,
\* not the zero value of a closed channel), it has observed exactly one
\* item, and afterwards every stage terminates.
C7_OneShotConsumer ==
  /\ [](OneShot =>
          /\ ~sawClosed
          /\ Len(received) = 1
          /\ \E j \in DOMAIN nums : received[1] = nums[j] * nums[j])
  /\ OneShot ~> (AllTerminated /\ Closed(OutCh))

\* input [2, 3], two sq instances: 9 received, done closed, all terminated
C7_Witness ==
  /\ OneShot /\ nums = <<2, 3>> /\ k = 2
  /\ received = <<9>> /\ AllTerminated /\ Closed(OutCh)

\* C8: when done is never closed and the consumer keeps receiving, merge's
\* output is eventually closed, every goroutine terminates and the consumer's
\* loop ends.
C8_DrainTerminates ==
  <>(Closed(DoneCh) \/ (AllTerminated /\ Closed(OutCh) /\ mpc = "exit"))

\* an un-cancelled run of src/main.go's pipeline, drained to closure
C8_Witness ==
  /\ variant = "plain" /\ k = 2 /\ Len(nums) = 2
  /\ AllTerminated /\ Closed(OutCh) /\ mpc = "exit" /\ Len(received) = 2

\* C9: with an empty input gen's stream is closed and empty once gen
\* returns, no sq takes or sends an item, no stage is ever in a send, the
\* consumer receives nothing but the closure, and merge's output is closed.
C9_EmptyInput ==
  /\ [](nums = <<>> =>
          /\ inBuf = <<>> /\ taken = <<>>
          /\ mpc # "gen" => Closed(InCh)
          /\ \A i \in Idx : sqpc[i] # "select" /\ fpc[i] # "select"
          /\ \A i \in Idx : sqExit[i] # "cancel" /\ fExit[i] # "cancel"
          /\ received = <<>>
          /\ mpc = "exit" => sawClosed)
  /\ (nums = <<>>) ~> (AllTerminated /\ Closed(OutCh))

\* empty input, two sq instances, the consumer's first receive found closure
C9_Witness ==
  /\ nums = <<>> /\ k = 2 /\ AllTerminated
  /\ mpc = "exit" /\ sawClosed /\ received = <<>>

\* C10: gen never blocks (at each send fewer than cap items are buffered and
\* no receiver runs yet); once it returns its channel is closed, and the
\* receivers take exactly the values of nums, in order, before any of them
\* is told that the channel is closed.
C10_GenBufferedInOrder ==
  /\ (mpc = "gen" /\ gi < Len(nums)) => Len(inBuf) < inCap
  /\ mpc = "gen" =>
       /\ inBuf = SubSeq(nums, 1, gi) /\ taken = <<>>
       /\ \A i \in Idx : sqpc[i] = "idle"
  /\ mpc # "gen" => (Closed(InCh) /\ taken \o inBuf = nums)
  /\ \A i \in Idx : sqExit[i] = "closed" => taken = nums

\* gen(3, 2) returned, both values taken in order, closure reported to an sq
C10_Witness ==
  /\ nums = <<3, 2>> /\ mpc # "gen" /\ taken = <<3, 2>>
  /\ \E i \in Started : sqExit[i] = "closed"

----------------------------------------------------------------------------
\* The positions of nums that sq i has received.
Got(i) == {sqIn[i][a] : a \in DOMAIN sqIn[i]}

\* C11: when several sq instances receive from gen's channel, every item
\* (position of nums) is received by exactly one instance: none by two, none
\* twice by the same, and once all instances have returned in a run without
\* cancellation every item has been received by one of them.
C11_FanOutExactlyOnce ==
  /\ \A i \in Idx : Got(i) \subseteq 1..Len(nums)
  /\ \A i \in Idx : Cardinality(Got(i)) = Len(sqIn[i])
  /\ \A i, j \in Idx : i # j => Got(i) \cap Got(j) = {}
  /\ \A i \in Idx : sqpos[i] # 0 => (sqpos[i] \in Got(i) /\ sqn[i] = nums[sqpos[i]])
  /\ (k >= 1 /\ ~Closed(DoneCh) /\ \A i \in Started : sqpc[i] = "done")
       => UNION {Got(i) : i \in Started} = 1..Len(nums)

\* gen(2, 3) shared by two instances: the second took 2, the first took 3
C11_Witness ==
  /\ nums = <<2, 3>> /\ k = 2 /\ ~Closed(DoneCh)
  /\ sqIn[1] = <<2>> /\ sqIn[2] = <<1>>
  /\ sqpc[1] = "done" /\ sqpc[2] = "done"

----------------------------------------------------------------------------
\* C12 as stated: once done is closed, no sq instance and no forwarder
\* receives a further item from its upstream or sends one downstream.
C12_NoTransferAfterSignal ==
  [][Closed(DoneCh) =>
       /\ taken' = taken
       /\ received' = received
       /\ \A i \in Idx : ~(fpc[i] = "recv" /\ fpc'[i] = "select")]_vars

\* C12 as the code has it: only the sends are raced against done, and select
\* takes any ready case, so after the signal a stage may still receive an
\* item and may still complete a send whose receiver is ready.  What holds:
\* in a select reached with done closed the done case can be taken, and a
\* stage that has taken it receives and sends nothing further.
C12_StopsOnceSignalObserved ==
  /\ [](\A i \in Idx :
          /\ (Closed(DoneCh) /\ sqpc[i] = "select") => ENABLED SqCancel(i)
          /\ (Closed(DoneCh) /\ fpc[i] = "select") => ENABLED FwdCancel(i))
  /\ [][\A i \in Idx :
          /\ sqExit[i] = "cancel" =>
               (sqpc'[i] \in {"close", "done"} /\ sqn'[i] = 0)
          /\ fExit[i] = "cancel" =>
               (fpc'[i] \in {"wgdone", "done"} /\ fn'[i] = 0)]_vars

\* done was closed before the consumer received anything; afterwards an item
\* still travelled through sq, forwarder and merge's output to the consumer,
\* while the other sq left by the done case
C12_Witness ==
  /\ Closed(DoneCh) /\ rcvAtCancel = 0 /\ Len(received) = 1
  /\ \E i \in Started : sqExit[i] = "cancel"

----------------------------------------------------------------------------
\* The number of items held by sq instances and forwarders between a receive
\* and the send (or the done case) that follows it.
Held ==
  Cardinality({i \in Idx : sqpc[i] = "select"})
    + Cardinality({i \in Idx : fpc[i] = "select"})

\* The squares of the whole input, in input order.
Squares == [a \in DOMAIN nums |-> Square(nums[a])]

\* Every value occurs in s at most as often as in t.
SubBag(s, t) == \A v \in {s[a] : a \in DOMAIN s} : Count(s, v) <= Count(t, v)

\* C13: whenever cancellation is activated, what the consumer has received is
\* a sub-multiset of the squares of the input; every item of the input is
\* accounted for exactly once (still in gen's stream, held by a stage,
\* received, or dropped by a done case), so nothing is delivered twice;
\* nothing is dropped before the signal, and a run that ends with fewer
\* values than inputs is a cancelled one.
C13_CancelledOutputSubMultiset ==
  /\ SubBag(received, Squares)
  /\ Len(received) <= Len(nums)
  /\ (mpc # "gen") =>
       Len(received) + Held + Len(inBuf) + dropped = Len(nums)
  /\ ~Closed(DoneCh) => dropped = 0
  /\ (AllTerminated /\ k >= 1 /\ Len(received) < Len(nums)) => Closed(DoneCh)

\* two equal inputs, cancelled after the first value: one square delivered,
\* the other dropped by a done case, everything terminated
C13_Witness ==
  /\ nums = <<3, 3>> /\ Closed(DoneCh) /\ AllTerminated
  /\ received = <<9>> /\ dropped = 1

----------------------------------------------------------------------------
\* C14: merge's output is closed only when done has been closed or every
\* upstream handed to merge is closed and everything those upstreams yielded
\* has been received by the consumer; so in an un-cancelled run the closure
\* is never there while an item is undelivered.
C14_OutputClosedOnlyWhenDrained ==
  Closed(OutCh) =>
    \/ Closed(DoneCh)
    \/ /\ \A i \in Started : Closed(SqCh(i)) /\ fpc[i] = "done"
       /\ Held = 0
       /\ Len(received) = Len(taken)
       /\ k >= 1 => Len(received) = Len(nums)

\* un-cancelled, two upstreams, both items delivered, output closed and the
\* consumer has not yet looked at the closure
C14_Witness ==
  /\ Closed(OutCh) /\ ~Closed(DoneCh) /\ ~sawClosed
  /\ k = 2 /\ Len(nums) = 2 /\ Len(received) = 2

----------------------------------------------------------------------------
\* s is strictly increasing.
Increasing(s) == \A a, b \in DOMAIN s : a < b => s[a] < s[b]

\* The positions (in nums) of the items the consumer received from upstream i
\* of merge, in the order it received them.
FromUpstream(i) == SelectSeq(rcvPos, LAMBDA p : p \in Got(i))

\* C15: order is kept on every edge.  gen's stream is FIFO, so each sq
\* receives positions in increasing order, and holding one item at a time it
\* emits them in that order; the items of each upstream of merge reach the
\* consumer in that upstream's order; every received value is the square of
\* the item at its position.  With one sq and no cancellation the consumer
\* therefore receives the squares of the input in input order.
C15_OrderPerEdge ==
  /\ \A i \in Idx : Increasing(sqIn[i])
  /\ \A i \in Idx : Increasing(FromUpstream(i))
  /\ \A i \in Idx : fpos[i] # 0 =>
       /\ fpos[i] \in Got(i)
       /\ fn[i] = Square(nums[fpos[i]])
       /\ \A a \in DOMAIN FromUpstream(i) : FromUpstream(i)[a] < fpos[i]
       /\ sqpos[i] # 0 => fpos[i] < sqpos[i]
  /\ Len(rcvPos) = Len(received)
  /\ \A a \in DOMAIN received : received[a] = Square(nums[rcvPos[a]])
  /\ (k = 1 /\ ~Closed(DoneCh)) =>
       /\ received = SubSeq(Squares, 1, Len(received))
       /\ sawClosed => received = Squares

\* one sq, no cancellation, a descending input: the consumer has seen the
\* squares in input order and then the closure
C15_Witness ==
  /\ k = 1 /\ ~Closed(DoneCh) /\ nums = <<3, 2>>
  /\ received = <<9, 4>> /\ rcvPos = <<1, 2>> /\ sawClosed

----------------------------------------------------------------------------
\* The lifecycle phase of a stage, from where its goroutine stands and how it
\* left its loop: Running while in the loop, Draining after the upstream was
\* seen closed, Cancelled after the done case, Terminated once the deferred
\* close / wg.Done has run.
Phase(pc, exit, last) ==
  IF pc = "idle" THEN "NotStarted"
  ELSE IF pc = "done" THEN "Terminated"
  ELSE IF pc = last THEN (IF exit = "cancel" THEN "Cancelled"
                          ELSE IF exit = "closed" THEN "Draining"
                          ELSE "Unknown")
  ELSE "Running"

SqPhase(i) == Phase(sqpc[i], sqExit[i], "close")
FwdPhase(i) == Phase(fpc[i], fExit[i], "wgdone")
\* the coordinator has no done case: it leaves wg.Wait only by the count
CoordPhase == Phase(cpc, "closed", "close")

Lifecycle ==
  { <<"NotStarted", "Running">>,
    <<"Running", "Draining">>, <<"Running", "Cancelled">>,
    <<"Draining", "Terminated">>, <<"Cancelled", "Terminated">> }

\* C16: every stage moves only along
\* Running -> (Draining | Cancelled) -> Terminated, and Terminated is
\* absorbing: after sq or the coordinator has closed its stream it receives,
\* sends and closes nothing more, and after a forwarder's wg.Done it
\* receives and sends nothing more.
C16_Lifecycle ==
  [][/\ \A i \in Idx :
          /\ SqPhase(i)' = SqPhase(i) \/ <<SqPhase(i), SqPhase(i)'>> \in Lifecycle
          /\ FwdPhase(i)' = FwdPhase(i) \/ <<FwdPhase(i), FwdPhase(i)'>> \in Lifecycle
          /\ SqPhase(i) = "Terminated" =>
               /\ Closed(SqCh(i))
               /\ sqpc'[i] = sqpc[i] /\ sqn'[i] = sqn[i]
               /\ closes'[SqCh(i)] = closes[SqCh(i)]
          /\ FwdPhase(i) = "Terminated" =>
               /\ fpc'[i] = fpc[i] /\ fn'[i] = fn[i]
     /\ CoordPhase' = CoordPhase \/ <<CoordPhase, CoordPhase'>> \in Lifecycle
     /\ CoordPhase = "Terminated" =>
          /\ Closed(OutCh)
          /\ cpc' = cpc /\ closes'[OutCh] = closes[OutCh]]_vars

\* sq 1 terminated through Cancelled, its forwarder terminated too, while
\* sq 2 is still Running in its select
C16_Witness ==
  /\ SqPhase(1) = "Terminated" /\ sqExit[1] = "cancel"
  /\ FwdPhase(1) = "Terminated"
  /\ k = 2 /\ SqPhase(2) = "Running" /\ sqpc[2] = "select"

----------------------------------------------------------------------------
\* Some sq goroutine or forwarder stands in its send.
SomeoneInSend == \E i \in Started : sqpc[i] = "select" \/ fpc[i] = "select"

\* C17: without a cancellation signal the stages terminate only if the
\* consumer drains the output.  While fewer values than inputs have been
\* received the output is open and not everything has terminated.  The
\* number of received values never decreases, so a consumer that stops for
\* good after m < Len(nums) values is one for which that number stays below
\* Len(nums); then from some point on some sq or forwarder is in its send
\* forever and the output stays open.
C17_LeakWithoutDrain ==
  /\ []((variant = "plain" /\ k >= 1 /\ Len(received) < Len(nums)) =>
          (~Closed(OutCh) /\ ~AllTerminated))
  /\ [][Len(received') >= Len(received)]_vars
  /\ <>[](variant = "plain" /\ k >= 1 /\ Len(received) < Len(nums))
       => <>[](~Closed(OutCh) /\ SomeoneInSend)

\* plain variant, one of two values received, and no goroutine can move: a
\* forwarder stands in its send with no receiver
C17_Witness ==
  /\ variant = "plain" /\ k = 2 /\ Len(nums) = 2 /\ Len(received) = 1
  /\ ~ENABLED GoroutineStep
  /\ \E i \in Started : fpc[i] = "select"
  /\ ~Closed(OutCh)

----------------------------------------------------------------------------
\* C18: merge called with no upstream starts no forwarder and adds nothing
\* to the wait group, so the coordinator's wg.Wait returns at once; nothing
\* is ever sent on the output, and the coordinator closes it (once).
C18_MergeOfNothing ==
  /\ [](k = 0 =>
          /\ wg = 0
          /\ \A i \in Idx : fpc[i] = "idle" /\ fn[i] = 0
          /\ received = <<>>
          /\ fault = "none"
          /\ cpc = "wait" => ENABLED CoordWait
          /\ closes[OutCh] <= 1
          /\ Closed(OutCh) => closedBy[OutCh] = {MergeStage})
  /\ (k = 0) ~> (Closed(OutCh) /\ cpc = "done")

\* no sq instance although there was input: the output is closed by the
\* coordinator and the consumer has seen the closure and no value
C18_Witness ==
  /\ k = 0 /\ Len(nums) = 2
  /\ Closed(OutCh) /\ cpc = "done" /\ sawClosed /\ received = <<>>

----------------------------------------------------------------------------
\* Items taken from gen's stream and neither received by the consumer nor
\* dropped by a done case.
InFlight == Len(taken) - Len(received) - dropped

\* C19: the streams past gen are unbuffered, so an item in flight is held by
\* a goroutine: each sq and each forwarder holds at most one, and with k sq
\* instances at most 2k items are in flight.
C19_InFlightBound ==
  /\ InFlight >= 0
  /\ InFlight = Held
  /\ InFlight <= 2 * k
  /\ \A i \in Idx : (sqpc[i] # "select" => sqn[i] = 0) /\ (fpc[i] # "select" => fn[i] = 0)

\* one sq instance: it holds one item and its forwarder the other
C19_Witness ==
  /\ k = 1 /\ Len(nums) = 2 /\ InFlight = 2
  /\ sqpc[1] = "select" /\ fpc[1] = "select"

====
